---- MODULE Spec2Model ----
(***************************************************************************)
(* Hours-of-Service rule engine and schedule synthesizer of               *)
(* trips/utils/hos_calculator.py (class HOSCalculator).                    *)
(*                                                                         *)
(* Time.  A datetime is an integer number of minutes; a timedelta is a     *)
(* number of minutes.  Every hour-valued float of the code                 *)
(* (trip_duration_hours, remaining_hours, duration_hours, the envelope     *)
(* values) is held as its exact number of minutes, h hours being Hours(h). *)
(* The inputs are drawn from a grid of whole minutes, on which the code's  *)
(* float arithmetic (timedelta(hours=..), total_seconds() / 3600) is       *)
(* exact, so the integers below are the values the code computes.          *)
(*                                                                         *)
(* Two specifications:                                                     *)
(*   Spec      one invocation of the classmethod                           *)
(*             HOSCalculator.calculate_optimal_schedule, one action per    *)
(*             iteration of its while loop;                                *)
(*   EvalSpec  an HOSCalculator instance (with or without previous_drives) *)
(*             on which the three instance methods are called.             *)
(***************************************************************************)
EXTENDS Integers, Sequences, FiniteSets, TLC

VARIABLES
    \* the HOSCalculator instance (hos_calculator.py:28-29)
    self_current_cycle_used,
    self_previous_drives,
    \* the last instance method called on it, with its arguments, and what it returned
    call,
    ret,
    \* the invocation of calculate_optimal_schedule: its arguments ...
    origin,
    destination,
    estimated_duration,
    start_time,
    current_cycle_used,
    \* ... its locals ...
    pc,
    hos_data,
    schedule,
    current_time,
    remaining_hours,
    \* ... and its return value
    result,
    \* the arguments and the result of the invocation made before this one, if any
    earlier,
    \* the invocation of calculate_optimal_schedule of another request, suspended
    \* while this one runs: its arguments, locals and return value
    other,
    \* the rendering services: the list StatusLineDrawer._add_implied_segments works
    \* on, with the grid and the position of its loop (grid_drawer.py), and the
    \* days and log sheets of PDFGenerator.generate_pdf (pdf_generator.py)
    drawer,
    pdf,
    \* the web layer (views.py): the HTTP request being served, the response sent
    \* for it, and the Trip rows of the database
    request,
    response,
    trips

vars == << self_current_cycle_used, self_previous_drives, call, ret,
           origin, destination, estimated_duration, start_time, current_cycle_used,
           pc, hos_data, schedule, current_time, remaining_hours, result,
           earlier, other, drawer, pdf, request, response, trips >>

renderVars == << drawer, pdf >>

webVars == << request, response, trips >>

evalVars == << self_current_cycle_used, self_previous_drives, call, ret >>

synthVars == << origin, destination, estimated_duration, start_time, current_cycle_used,
                pc, hos_data, schedule, current_time, remaining_hours, result >>

----------------------------------------------------------------------------
(* Bounds of the model *)

\* the inputs lie on a grid of Grid minutes
Grid == 15

\* estimated_duration / trip_duration_hours ranges over Grid * (1..MaxDurationSteps) minutes
MaxDurationSteps == 106

\* start_time ranges over Grid * (0..MaxStartSteps) minutes
MaxStartSteps == 1

\* the largest current_cycle_used an instance is constructed with
MaxCycleUsed == 72

\* the largest number of previous drives of an instance
MaxDrives == 1

----------------------------------------------------------------------------
(* FMCSA HOS constants, hos_calculator.py:13-17 *)

MAX_DRIVING_HOURS == 11

MAX_DUTY_WINDOW_HOURS == 14

REQUIRED_BREAK_MINS == 30

BREAK_AFTER_DRIVING_HOURS == 8

CYCLE_HOURS_LIMIT == 70

\* the length of a required rest: timedelta(hours=10), hos_calculator.py:146 and 158
REST_HOURS == 10

----------------------------------------------------------------------------
(* Helpers *)

\* timedelta(hours=h), and an hour count as held by the model: minutes
Hours(h) == 60 * h

\* Max without the clamp: the second argument whatever the first
Max_NoClamp(a, b) == b

\* Python's max(a, b)
Max(a, b) == IF a >= b THEN a ELSE b

\* Python's sum(...) over a sequence of numbers
RECURSIVE SumSeq(_)
SumSeq(s) == IF s = << >> THEN 0 ELSE Head(s) + SumSeq(Tail(s))

----------------------------------------------------------------------------
(* The evaluator: the instance methods of HOSCalculator, as functions of the  *)
(* instance's fields and the arguments.                                       *)

\* sorted(drives, key=lambda x: x.get('start_time')): a stable sort by start_time
RECURSIVE InsertByStart(_, _)
InsertByStart(d, s) ==
    IF s = << >> THEN << d >>
    ELSE IF d.start_time < Head(s).start_time THEN << d >> \o s
    ELSE << Head(s) >> \o InsertByStart(d, Tail(s))

RECURSIVE SortedByStart(_)
SortedByStart(drives) ==
    IF drives = << >> THEN << >>
    ELSE InsertByStart(drives[Len(drives)], SortedByStart(SubSeq(drives, 1, Len(drives) - 1)))

\* (drive['end_time'] - drive['start_time']).total_seconds() / 3600, for each drive
DriveDurations(drives) == [i \in 1..Len(drives) |-> drives[i].end_time - drives[i].start_time]

\* RemainingCycle with the hours already used left out of the subtraction
RemainingCycle_IgnoresUsed(cycle_used) == Hours(Max(0, CYCLE_HOURS_LIMIT))

\* remaining_cycle = max(0, CYCLE_HOURS_LIMIT - current_cycle_used)
RemainingCycle(cycle_used) == Hours(Max(0, CYCLE_HOURS_LIMIT - cycle_used))

calculate_remaining_drive_time(cycle_used, previous_drives) ==
    IF previous_drives = << >>
    THEN [ remaining_cycle_hours       |-> RemainingCycle(cycle_used),
           remaining_driving_hours     |-> Hours(MAX_DRIVING_HOURS),
           remaining_duty_window_hours |-> Hours(MAX_DUTY_WINDOW_HOURS) ]
    ELSE LET sorted_drives == SortedByStart(previous_drives)
             duty_period_start == sorted_drives[1].start_time
             duty_period_driving_hours == SumSeq(DriveDurations(sorted_drives))
             last_drive_end == sorted_drives[Len(sorted_drives)].end_time
             duty_window_hours == last_drive_end - duty_period_start
         IN [ remaining_cycle_hours       |-> RemainingCycle(cycle_used),
              remaining_driving_hours     |->
                  Max(0, Hours(MAX_DRIVING_HOURS) - duty_period_driving_hours),
              remaining_duty_window_hours |->
                  Max(0, Hours(MAX_DUTY_WINDOW_HOURS) - duty_window_hours) ]

\* the driving done before the trip: the loop of hos_calculator.py:79-84
PreviousDrivingHours(previous_drives) == SumSeq(DriveDurations(SortedByStart(previous_drives)))

\* HoursUntilFirstBreak without the modulo
HoursUntilFirstBreak_NoModulo(previous_drives) ==
    Hours(BREAK_AFTER_DRIVING_HOURS) - PreviousDrivingHours(previous_drives)

\* hours_until_break = BREAK_AFTER_DRIVING_HOURS - (previous_driving_hours % BREAK_AFTER_DRIVING_HOURS)
HoursUntilFirstBreak(previous_drives) ==
    Hours(BREAK_AFTER_DRIVING_HOURS)
        - (PreviousDrivingHours(previous_drives) % Hours(BREAK_AFTER_DRIVING_HOURS))

\* BreakLoopContinues with >= for >
BreakLoopContinues_AtThreshold(remaining_trip_hours, hours_until_break) ==
    remaining_trip_hours >= hours_until_break

\* the test of the loop: while remaining_trip_hours > hours_until_break
BreakLoopContinues(remaining_trip_hours, hours_until_break) ==
    remaining_trip_hours > hours_until_break

\* the break appended by one iteration
MakeBreak(break_start) ==
    [ break_type |-> "30-minute rest break",
      reason     |-> "8-hour driving limit reached",
      start_time |-> break_start,
      end_time   |-> break_start + REQUIRED_BREAK_MINS ]

\* the while loop of calculate_required_breaks, from the state of its locals
RECURSIVE BreaksLoop(_, _, _, _)
BreaksLoop(breaks, cur_time, remaining_trip_hours, hours_until_break) ==
    IF BreakLoopContinues(remaining_trip_hours, hours_until_break)
    THEN LET br == MakeBreak(cur_time + hours_until_break)
         IN BreaksLoop(Append(breaks, br), br.end_time,
                       remaining_trip_hours - hours_until_break,
                       Hours(BREAK_AFTER_DRIVING_HOURS))
    ELSE breaks

calculate_required_breaks(previous_drives, trip_start, trip_duration_hours) ==
    BreaksLoop(<< >>, trip_start, trip_duration_hours, HoursUntilFirstBreak(previous_drives))

\* Compliant with < for <=
Compliant_Strict(trip_duration_hours, remaining_value) == trip_duration_hours < remaining_value

\* the three checks: trip_duration_hours <= remaining[...]
Compliant(trip_duration_hours, remaining_value) == trip_duration_hours <= remaining_value

\* MakeRest with the length of a break for the length of a rest
MakeRest_BreakLength(why, complete_time) ==
    [ rest_type  |-> "10-hour off-duty rest",
      reason     |-> why,
      start_time |-> complete_time,
      end_time   |-> complete_time + REQUIRED_BREAK_MINS ]

\* the rest appended when a limit is exceeded
MakeRest(why, complete_time) ==
    [ rest_type  |-> "10-hour off-duty rest",
      reason     |-> why,
      start_time |-> complete_time,
      end_time   |-> complete_time + Hours(REST_HOURS) ]

\* RequiredRest keeping a single rest when both limits are exceeded
RequiredRest_Merged(remaining, trip_start, driving_compliant, duty_window_compliant) ==
    IF ~driving_compliant
    THEN << MakeRest("11-hour driving limit reached",
                     trip_start + remaining.remaining_driving_hours) >>
    ELSE IF ~duty_window_compliant
    THEN << MakeRest("14-hour on-duty window limit reached",
                     trip_start + remaining.remaining_duty_window_hours) >>
    ELSE << >>

\* required_rest as lines 140-165 build it: a rest for the driving limit, then a
\* rest for the duty window
RequiredRest(remaining, trip_start, driving_compliant, duty_window_compliant) ==
    LET driving_rest ==
            IF ~driving_compliant
            THEN << MakeRest("11-hour driving limit reached",
                             trip_start + remaining.remaining_driving_hours) >>
            ELSE << >>
        window_rest ==
            IF ~duty_window_compliant
            THEN << MakeRest("14-hour on-duty window limit reached",
                             trip_start + remaining.remaining_duty_window_hours) >>
            ELSE << >>
    IN driving_rest \o window_rest

enforce_hos_limits(cycle_used, previous_drives, trip_start, trip_duration_hours) ==
    LET remaining == calculate_remaining_drive_time(cycle_used, previous_drives)
        cycle_compliant ==
            Compliant(trip_duration_hours, remaining.remaining_cycle_hours)
        driving_compliant ==
            Compliant(trip_duration_hours, remaining.remaining_driving_hours)
        duty_window_compliant ==
            Compliant(trip_duration_hours, remaining.remaining_duty_window_hours)
        required_breaks ==
            calculate_required_breaks(previous_drives, trip_start, trip_duration_hours)
    IN [ trip_start_time       |-> trip_start,
         trip_end_time         |-> trip_start + trip_duration_hours,
         trip_duration_hours   |-> trip_duration_hours,
         cycle_compliant       |-> cycle_compliant,
         driving_compliant     |-> driving_compliant,
         duty_window_compliant |-> duty_window_compliant,
         required_breaks       |-> required_breaks,
         required_rest_periods |-> RequiredRest(remaining, trip_start, driving_compliant,
                                                duty_window_compliant),
         current_cycle_hours   |-> cycle_used,
         updated_cycle_hours   |-> Hours(cycle_used) + trip_duration_hours,
         remaining_before_trip |-> remaining ]

----------------------------------------------------------------------------
(* The synthesizer: the while loop of calculate_optimal_schedule,             *)
(* hos_calculator.py:204-289.                                                 *)

\* the first rest of the list with rest.start_time <= current_time < rest.end_time,
\* as the for loop of lines 213-226 finds it; 0 when there is none
RestIndex(cur_time, rests) ==
    LET hits == { i \in 1..Len(rests) :
                    cur_time >= rests[i].start_time /\ cur_time < rests[i].end_time }
    IN IF hits = {} THEN 0 ELSE CHOOSE i \in hits : \A j \in hits : i <= j

\* the first break of the list that starts after current_time and before the
\* end of the remaining driving, as the for loop of lines 233-261 finds it; 0 when none
BreakIndex(cur_time, remaining, breaks) ==
    LET hits == { i \in 1..Len(breaks) :
                    cur_time < breaks[i].start_time
                    /\ cur_time + remaining > breaks[i].start_time }
    IN IF hits = {} THEN 0 ELSE CHOOSE i \in hits : \A j \in hits : i <= j

\* the segment appended at lines 216-223
RestSegment(rest) ==
    [ type           |-> "rest",
      start_time     |-> rest.start_time,
      end_time       |-> rest.end_time,
      duration_hours |-> rest.end_time - rest.start_time,
      location       |-> "Unknown rest location",
      reason         |-> rest.reason ]

\* DriveToBreakSegment with the origin as start_location of every drive
DriveToBreakSegment_AlwaysOrigin(sched, org, cur_time, br) ==
    [ type           |-> "drive",
      start_time     |-> cur_time,
      end_time       |-> br.start_time,
      duration_hours |-> br.start_time - cur_time,
      start_location |-> org,
      end_location   |-> "Break location" ]

\* the segment appended at lines 239-246
DriveToBreakSegment(sched, org, cur_time, br) ==
    [ type           |-> "drive",
      start_time     |-> cur_time,
      end_time       |-> br.start_time,
      duration_hours |-> br.start_time - cur_time,
      start_location |-> IF sched = << >> THEN org ELSE "En route",
      end_location   |-> "Break location" ]

\* the segment appended at lines 249-256
BreakSegment(br) ==
    [ type           |-> "break",
      start_time     |-> br.start_time,
      end_time       |-> br.end_time,
      duration_hours |-> br.end_time - br.start_time,
      location       |-> "Break location",
      reason         |-> br.reason ]

\* FinalDriveSegment with the driving before the last break counted again
FinalDriveSegment_WholeTrip(sched, org, dest, cur_time, remaining) ==
    [ type           |-> "drive",
      start_time     |-> cur_time,
      end_time       |-> cur_time + remaining + SumSeq([ i \in 1..Len(sched) |->
                             IF sched[i].type = "drive" THEN sched[i].duration_hours ELSE 0 ]),
      duration_hours |-> remaining + SumSeq([ i \in 1..Len(sched) |->
                             IF sched[i].type = "drive" THEN sched[i].duration_hours ELSE 0 ]),
      start_location |-> IF sched = << >> THEN org ELSE "En route",
      end_location   |-> dest ]

\* the segment appended at lines 267-275
FinalDriveSegment(sched, org, dest, cur_time, remaining) ==
    [ type           |-> "drive",
      start_time     |-> cur_time,
      end_time       |-> cur_time + remaining,
      duration_hours |-> remaining,
      start_location |-> IF sched = << >> THEN org ELSE "En route",
      end_location   |-> dest ]

\* sum([(s['duration_hours'] if s['type'] != 'drive' else 0) for s in schedule])
NonDriveHours(sched) ==
    SumSeq([ i \in 1..Len(sched) |->
               IF sched[i].type # "drive" THEN sched[i].duration_hours ELSE 0 ])

\* ResultEndTime without the time of the breaks and rests
ResultEndTime_DrivingOnly(trip_start, duration, sched) == trip_start + duration

\* 'end_time': start_time + timedelta(hours=estimated_duration + sum(...)), lines 284-286
ResultEndTime(trip_start, duration, sched) == trip_start + (duration + NonDriveHours(sched))

\* values of the locals and of the return value before they are assigned
NoHosData == [ required_breaks |-> << >>, required_rest_periods |-> << >> ]

NoResult == [ schedule |-> << >> ]

NoCall == [ op |-> "none" ]

NoEarlier == [ made |-> FALSE, args |-> << >>, result |-> NoResult ]

NoOther == [ pc |-> "none" ]

NoDrawer == [ pc |-> "none" ]

NoPdf == [ pc |-> "none" ]

NoRequest == [ endpoint |-> "none" ]

NoResponse == [ status |-> 0 ]

----------------------------------------------------------------------------
(* The inputs *)

Durations == { Grid * k : k \in 1..MaxDurationSteps }

StartTimes == { Grid * k : k \in 0..MaxStartSteps }

\* current_cycle_used as the API admits it: IntegerField(min_value=0, max_value=70)
ValidCycles == 0..CYCLE_HOURS_LIMIT

Origins == { "New York" }

Destinations == { "Boston" }

----------------------------------------------------------------------------
(* Spec: one invocation of HOSCalculator.calculate_optimal_schedule *)

Init ==
    /\ origin \in Origins
    /\ destination \in Destinations
    /\ estimated_duration \in Durations
    /\ start_time \in StartTimes
    /\ current_cycle_used \in ValidCycles
    /\ pc = "call"
    /\ hos_data = NoHosData
    /\ schedule = << >>
    /\ current_time = 0
    /\ remaining_hours = 0
    /\ result = NoResult
    /\ self_current_cycle_used = 0
    /\ self_previous_drives = << >>
    /\ call = NoCall
    /\ ret = << >>
    /\ earlier = NoEarlier
    /\ other = NoOther
    /\ drawer = NoDrawer
    /\ pdf = NoPdf
    /\ request = NoRequest
    /\ response = NoResponse
    /\ trips = {}

\* Begin with schedule kept from the invocation before, as a list shared between
\* invocations would be
Begin_KeepsSchedule ==
    /\ pc = "call"
    /\ self_current_cycle_used' = current_cycle_used
    /\ self_previous_drives' = << >>
    /\ hos_data' = enforce_hos_limits(current_cycle_used, << >>, start_time, estimated_duration)
    /\ schedule' = schedule
    /\ current_time' = start_time
    /\ remaining_hours' = estimated_duration
    /\ pc' = "loop"
    /\ UNCHANGED << call, ret, origin, destination, estimated_duration, start_time,
                    current_cycle_used, result, earlier, other, renderVars, webVars >>

\* lines 201-207: calculator = cls(current_cycle_used); hos_data = ...; the locals
Begin ==
    /\ pc = "call"
    /\ self_current_cycle_used' = current_cycle_used
    /\ self_previous_drives' = << >>
    /\ hos_data' = enforce_hos_limits(current_cycle_used, << >>, start_time, estimated_duration)
    /\ schedule' = << >>
    /\ current_time' = start_time
    /\ remaining_hours' = estimated_duration
    /\ pc' = "loop"
    /\ UNCHANGED << call, ret, origin, destination, estimated_duration, start_time,
                    current_cycle_used, result, earlier, other, renderVars, webVars >>

\* an iteration that finds current_time inside a rest: lines 212-229
LoopRest ==
    /\ pc = "loop"
    /\ remaining_hours > 0
    /\ RestIndex(current_time, hos_data.required_rest_periods) # 0
    /\ LET rest == hos_data.required_rest_periods[
                       RestIndex(current_time, hos_data.required_rest_periods)]
       IN /\ schedule' = Append(schedule, RestSegment(rest))
          /\ current_time' = rest.end_time
    /\ UNCHANGED << remaining_hours, pc, hos_data, result, evalVars,
                    origin, destination, estimated_duration, start_time, current_cycle_used,
                    earlier, other, renderVars, webVars >>

\* LoopBreak with the search for a break made before the search for a rest
LoopBreak_BeforeRest ==
    /\ pc = "loop"
    /\ remaining_hours > 0
    /\ BreakIndex(current_time, remaining_hours, hos_data.required_breaks) # 0
    /\ LET br == hos_data.required_breaks[
                     BreakIndex(current_time, remaining_hours, hos_data.required_breaks)]
           drive == DriveToBreakSegment(schedule, origin, current_time, br)
       IN /\ schedule' = schedule \o << drive, BreakSegment(br) >>
          /\ current_time' = br.end_time
          /\ remaining_hours' = remaining_hours - drive.duration_hours
    /\ UNCHANGED << pc, hos_data, result, evalVars,
                    origin, destination, estimated_duration, start_time, current_cycle_used,
                    earlier, other, renderVars, webVars >>

\* an iteration that drives up to a break and takes it: lines 231-264
LoopBreak ==
    /\ pc = "loop"
    /\ remaining_hours > 0
    /\ RestIndex(current_time, hos_data.required_rest_periods) = 0
    /\ BreakIndex(current_time, remaining_hours, hos_data.required_breaks) # 0
    /\ LET br == hos_data.required_breaks[
                     BreakIndex(current_time, remaining_hours, hos_data.required_breaks)]
           drive == DriveToBreakSegment(schedule, origin, current_time, br)
       IN /\ schedule' = schedule \o << drive, BreakSegment(br) >>
          /\ current_time' = br.end_time
          /\ remaining_hours' = remaining_hours - drive.duration_hours
    /\ UNCHANGED << pc, hos_data, result, evalVars,
                    origin, destination, estimated_duration, start_time, current_cycle_used,
                    earlier, other, renderVars, webVars >>

\* the iteration that adds the final driving segment: lines 266-277
LoopFinalDrive ==
    /\ pc = "loop"
    /\ remaining_hours > 0
    /\ RestIndex(current_time, hos_data.required_rest_periods) = 0
    /\ BreakIndex(current_time, remaining_hours, hos_data.required_breaks) = 0
    /\ schedule' = Append(schedule,
                          FinalDriveSegment(schedule, origin, destination,
                                            current_time, remaining_hours))
    /\ remaining_hours' = 0
    /\ UNCHANGED << current_time, pc, hos_data, result, evalVars,
                    origin, destination, estimated_duration, start_time, current_cycle_used,
                    earlier, other, renderVars, webVars >>

\* Return without the test of the while condition
Return_Early ==
    /\ pc = "loop"
    /\ result' = [ origin               |-> origin,
                   destination          |-> destination,
                   total_duration_hours |-> estimated_duration,
                   start_time           |-> start_time,
                   end_time             |-> ResultEndTime(start_time, estimated_duration,
                                                          schedule),
                   schedule             |-> schedule,
                   hos_data             |-> hos_data ]
    /\ pc' = "done"
    /\ UNCHANGED << hos_data, schedule, current_time, remaining_hours, evalVars,
                    origin, destination, estimated_duration, start_time, current_cycle_used,
                    earlier, other, renderVars, webVars >>

\* the loop is left and the result is built: lines 279-289
Return ==
    /\ pc = "loop"
    /\ ~(remaining_hours > 0)
    /\ result' = [ origin               |-> origin,
                   destination          |-> destination,
                   total_duration_hours |-> estimated_duration,
                   start_time           |-> start_time,
                   end_time             |-> ResultEndTime(start_time, estimated_duration,
                                                          schedule),
                   schedule             |-> schedule,
                   hos_data             |-> hos_data ]
    /\ pc' = "done"
    /\ UNCHANGED << hos_data, schedule, current_time, remaining_hours, evalVars,
                    origin, destination, estimated_duration, start_time, current_cycle_used,
                    earlier, other, renderVars, webVars >>

Next == Begin \/ LoopRest \/ LoopBreak \/ LoopFinalDrive \/ Return

Spec == Init /\ [][Next]_vars

----------------------------------------------------------------------------
(* EvalSpec: an HOSCalculator instance and calls of its three methods *)

\* instants before the trip at which a previous drive starts or ends, in hours back
PriorHoursBack == { 0, 3, 8, 11, 16 }

\* a previous drive: {'start_time': ..., 'end_time': ...} with start_time <= end_time
Intervals ==
    { iv \in [ start_time : { 0 - Hours(a) : a \in PriorHoursBack },
               end_time   : { 0 - Hours(b) : b \in PriorHoursBack } ] :
        iv.start_time <= iv.end_time }

DriveLists == UNION { [ 1..n -> Intervals ] : n \in 0..MaxDrives }

\* current_cycle_used of the instances that have previous drives: the values of
\* tests.py (0, 40), the limit, and a value beyond it
CycleSamples == { 0, 40, CYCLE_HOURS_LIMIT, MaxCycleUsed }

\* HOSCalculator(current_cycle_used, previous_drives): lines 20-29
EvalInit ==
    /\ self_previous_drives \in DriveLists
    /\ self_current_cycle_used \in
           IF self_previous_drives = << >> THEN 0..MaxCycleUsed ELSE CycleSamples
    /\ call = NoCall
    /\ ret = << >>
    /\ earlier = NoEarlier
    /\ other = NoOther
    /\ drawer = NoDrawer
    /\ pdf = NoPdf
    /\ request = NoRequest
    /\ response = NoResponse
    /\ trips = {}
    /\ origin = ""
    /\ destination = ""
    /\ estimated_duration = 0
    /\ start_time = 0
    /\ current_cycle_used = 0
    /\ pc = "idle"
    /\ hos_data = NoHosData
    /\ schedule = << >>
    /\ current_time = 0
    /\ remaining_hours = 0
    /\ result = NoResult

\* No method writes to the instance, so the instance a call finds is the one
\* constructed, whatever was called before.  The calls with arguments are taken
\* from the instance as constructed or as left by calculate_remaining_drive_time,
\* which is enabled everywhere: every sequence of calls ends in a state reached so.
ArgCallEnabled == call.op \in { "none", "calculate_remaining_drive_time" }

\* CallRemaining with the list sorted in place (previous_drives.sort()) for sorted()
CallRemaining_SortsInPlace ==
    /\ pc = "idle"
    /\ call' = [ op |-> "calculate_remaining_drive_time" ]
    /\ ret' = calculate_remaining_drive_time(self_current_cycle_used, self_previous_drives)
    /\ self_previous_drives' = SortedByStart(self_previous_drives)
    /\ UNCHANGED << self_current_cycle_used, synthVars, earlier, other, renderVars, webVars >>

\* calculator.calculate_remaining_drive_time()
CallRemaining ==
    /\ pc = "idle"
    /\ call' = [ op |-> "calculate_remaining_drive_time" ]
    /\ ret' = calculate_remaining_drive_time(self_current_cycle_used, self_previous_drives)
    /\ UNCHANGED << self_current_cycle_used, self_previous_drives, synthVars, earlier, other, renderVars, webVars >>

\* calculator.calculate_required_breaks(start_time, trip_duration_hours)
CallBreaks ==
    /\ pc = "idle"
    /\ ArgCallEnabled
    /\ \E s \in StartTimes, d \in Durations :
          /\ call' = [ op |-> "calculate_required_breaks",
                       start_time |-> s, trip_duration_hours |-> d ]
          /\ ret' = calculate_required_breaks(self_previous_drives, s, d)
    /\ UNCHANGED << self_current_cycle_used, self_previous_drives, synthVars, earlier, other, renderVars, webVars >>

\* calculator.enforce_hos_limits(start_time, trip_duration_hours)
CallEnforce ==
    /\ pc = "idle"
    /\ ArgCallEnabled
    /\ \E s \in StartTimes, d \in Durations :
          /\ call' = [ op |-> "enforce_hos_limits",
                       start_time |-> s, trip_duration_hours |-> d ]
          /\ ret' = enforce_hos_limits(self_current_cycle_used, self_previous_drives, s, d)
    /\ UNCHANGED << self_current_cycle_used, self_previous_drives, synthVars, earlier, other, renderVars, webVars >>

EvalNext == CallRemaining \/ CallBreaks \/ CallEnforce

EvalSpec == EvalInit /\ [][EvalNext]_vars

----------------------------------------------------------------------------
(* Properties of the schedule returned by calculate_optimal_schedule (Spec) *)

Returned == pc = "done"

Segs == result.schedule

IsDrive(i) == Segs[i].type = "drive"

\* the driving hours of segments i..j of the returned schedule
DriveHoursBetween(i, j) ==
    SumSeq([ k \in 1..(j - i + 1) |->
               IF IsDrive(i + k - 1) THEN Segs[i + k - 1].duration_hours ELSE 0 ])

\* C1: the first segment of a returned schedule starts at the trip's start_time and
\* each segment ends when the next one starts.
C1_SegmentsContiguous ==
    Returned =>
        /\ Segs # << >> => Segs[1].start_time = result.start_time
        /\ \A i \in 1..(Len(Segs) - 1) : Segs[i].end_time = Segs[i + 1].start_time

\* C2: every required break of hos_data is a break segment of the returned schedule
\* and every required rest period is a rest segment of it, with the same start and end.
C2_InterruptionsInjected ==
    Returned =>
        /\ \A b \in 1..Len(result.hos_data.required_breaks) :
              \E i \in 1..Len(Segs) :
                 /\ Segs[i].type = "break"
                 /\ Segs[i].start_time = result.hos_data.required_breaks[b].start_time
                 /\ Segs[i].end_time = result.hos_data.required_breaks[b].end_time
        /\ \A r \in 1..Len(result.hos_data.required_rest_periods) :
              \E i \in 1..Len(Segs) :
                 /\ Segs[i].type = "rest"
                 /\ Segs[i].start_time = result.hos_data.required_rest_periods[r].start_time
                 /\ Segs[i].end_time = result.hos_data.required_rest_periods[r].end_time

\* C3: in a returned schedule the driving of any run of segments that holds no rest
\* segment totals at most 11 hours.
C3_ElevenHourDrivingLimit ==
    Returned =>
        \A i \in 1..Len(Segs) : \A j \in i..Len(Segs) :
           (\A k \in i..j : Segs[k].type # "rest")
              => DriveHoursBetween(i, j) <= Hours(MAX_DRIVING_HOURS)

\* C4: no drive segment of a returned schedule lasts more than 8 hours.
C4_EightHourBreakRule ==
    Returned =>
        \A i \in 1..Len(Segs) :
           IsDrive(i) => Segs[i].duration_hours <= Hours(BREAK_AFTER_DRIVING_HOURS)

\* C5: no two segments of a returned schedule overlap in time.
C5_NoOverlap ==
    Returned =>
        \A i \in 1..Len(Segs) : \A j \in 1..Len(Segs) :
           i # j => \/ Segs[i].end_time <= Segs[j].start_time
                    \/ Segs[j].end_time <= Segs[i].start_time

\* C6: the end_time of the result is the end_time of the last segment of its schedule.
C6_EndTimeIsLastSegmentEnd ==
    Returned /\ Segs # << >> => result.end_time = Segs[Len(Segs)].end_time

\* C7: the duration_hours of the segments of a returned schedule sum to
\* result.end_time - result.start_time.
C7_DurationsSumToSpan ==
    Returned =>
        SumSeq([ i \in 1..Len(Segs) |-> Segs[i].duration_hours ])
            = result.end_time - result.start_time

\* C7 witness: a returned schedule with drives, breaks and rests, whose durations
\* sum to the span of the result.
C7_Witness ==
    /\ Returned
    /\ \E i \in 1..Len(Segs) : Segs[i].type = "break"
    /\ \E i \in 1..Len(Segs) : Segs[i].type = "rest"
    /\ result.end_time - result.start_time > result.total_duration_hours
    /\ SumSeq([ i \in 1..Len(Segs) |-> Segs[i].duration_hours ])
           = result.end_time - result.start_time

----------------------------------------------------------------------------
(* Properties of the instance methods (EvalSpec) *)

NoPriorDrives == self_previous_drives = << >>

\* the number of integers k >= 1 with 8k hours < d
BreaksDue(d) == Cardinality({ k \in 1..(d \div Hours(8) + 1) : Hours(8 * k) < d })

\* C8: with no previous drives and current_cycle_used in 0..70,
\* calculate_remaining_drive_time returns 70 - current_cycle_used cycle hours,
\* 11 driving hours and 14 duty-window hours.
C8_FreshEnvelope ==
    ( /\ call.op = "calculate_remaining_drive_time"
      /\ NoPriorDrives
      /\ self_current_cycle_used \in 0..70 )
    => ret = [ remaining_cycle_hours       |-> Hours(70 - self_current_cycle_used),
               remaining_driving_hours     |-> Hours(11),
               remaining_duty_window_hours |-> Hours(14) ]

\* C8 witness: the envelope returned for current_cycle_used = 40 is 30 / 11 / 14.
C8_Witness ==
    /\ call.op = "calculate_remaining_drive_time"
    /\ NoPriorDrives
    /\ self_current_cycle_used = 40
    /\ ret.remaining_cycle_hours = Hours(30)
    /\ ret.remaining_driving_hours = Hours(11)
    /\ ret.remaining_duty_window_hours = Hours(14)

\* C9: with no previous drives calculate_required_breaks(start, D) returns one break
\* for each k >= 1 with 8k hours < D, in order, the k-th starting at
\* start + 8k hours + 30(k-1) minutes and lasting 30 minutes; a 10-hour trip gets
\* one break at start + 8 hours and a trip of at most 8 hours gets none.
C9_BreaksEveryEightHours ==
    ( call.op = "calculate_required_breaks" /\ NoPriorDrives )
    => /\ Len(ret) = BreaksDue(call.trip_duration_hours)
       /\ \A k \in 1..Len(ret) :
             /\ ret[k].start_time = call.start_time + Hours(8 * k) + 30 * (k - 1)
             /\ ret[k].end_time = ret[k].start_time + 30
       /\ call.trip_duration_hours = Hours(10)
             => Len(ret) = 1 /\ ret[1].start_time = call.start_time + Hours(8)
       /\ call.trip_duration_hours <= Hours(8) => ret = << >>

\* C9 witness: a trip long enough for three breaks, the third shifted by the two
\* breaks before it.
C9_Witness ==
    /\ call.op = "calculate_required_breaks"
    /\ NoPriorDrives
    /\ Len(ret) = 3
    /\ ret[3].start_time = call.start_time + Hours(24) + 60

\* C10: each compliance flag of enforce_hos_limits is
\* (trip duration <= the matching value of remaining_before_trip), equality being
\* compliant; for a driver with no hours used and no previous drives a trip of at
\* most 8 hours has the three flags true, no break and no rest.
C10_ComplianceFlags ==
    call.op = "enforce_hos_limits"
    => LET d == call.trip_duration_hours
           env == ret.remaining_before_trip
       IN /\ ret.cycle_compliant = (d <= env.remaining_cycle_hours)
          /\ ret.driving_compliant = (d <= env.remaining_driving_hours)
          /\ ret.duty_window_compliant = (d <= env.remaining_duty_window_hours)
          /\ NoPriorDrives
                => /\ ret.cycle_compliant
                       = (d <= Hours(Max(0, 70 - self_current_cycle_used)))
                   /\ ret.driving_compliant = (d <= Hours(11))
                   /\ ret.duty_window_compliant = (d <= Hours(14))
          /\ (NoPriorDrives /\ self_current_cycle_used = 0 /\ d <= Hours(8))
                => /\ ret.cycle_compliant
                   /\ ret.driving_compliant
                   /\ ret.duty_window_compliant
                   /\ ret.required_breaks = << >>
                   /\ ret.required_rest_periods = << >>

\* C10 witness: a driver with previous drives whose trip lasts exactly the driving
\* hours that remain, and is found compliant with the driving limit.
C10_Witness ==
    /\ call.op = "enforce_hos_limits"
    /\ ~NoPriorDrives
    /\ call.trip_duration_hours = ret.remaining_before_trip.remaining_driving_hours
    /\ ret.remaining_before_trip.remaining_driving_hours < Hours(11)
    /\ ret.driving_compliant

----------------------------------------------------------------------------
(* Further properties of the instance methods (EvalSpec) *)

EnforceCalled == call.op = "enforce_hos_limits"

\* 1 for a flag that is false, 0 for one that is true
Violated(flag) == IF flag THEN 0 ELSE 1

\* C11: required_rest_periods holds one rest for a violated driving limit, then one
\* for a violated duty window, and none for a violated cycle limit: its length is the
\* number of false flags among driving_compliant and duty_window_compliant.  A
\* 12-hour trip of a driver with no hours used and no previous drives is
\* cycle-compliant, not driving-compliant, window-compliant, with at least one break
\* and one rest.
C11_OneRestPerViolatedLimit ==
    EnforceCalled
    => LET rests == ret.required_rest_periods
       IN /\ Len(rests) = Violated(ret.driving_compliant)
                            + Violated(ret.duty_window_compliant)
          /\ ~ret.driving_compliant
                => rests[1].reason = "11-hour driving limit reached"
          /\ ~ret.duty_window_compliant
                => rests[Len(rests)].reason = "14-hour on-duty window limit reached"
          /\ ( /\ NoPriorDrives
               /\ self_current_cycle_used = 0
               /\ call.trip_duration_hours = Hours(12) )
                => /\ ret.cycle_compliant
                   /\ ~ret.driving_compliant
                   /\ ret.duty_window_compliant
                   /\ Len(ret.required_breaks) >= 1
                   /\ Len(rests) >= 1

\* C11 witness: the three limits are exceeded and two rests are returned, the
\* driving-limit rest first.
C11_Witness ==
    /\ EnforceCalled
    /\ ~ret.cycle_compliant
    /\ ~ret.driving_compliant
    /\ ~ret.duty_window_compliant
    /\ Len(ret.required_rest_periods) = 2
    /\ ret.required_rest_periods[1].reason = "11-hour driving limit reached"
    /\ ret.required_rest_periods[2].reason = "14-hour on-duty window limit reached"

\* C18: every value of the envelope returned by calculate_remaining_drive_time is >= 0.
C18_EnvelopeNonNegative ==
    call.op = "calculate_remaining_drive_time"
    => /\ ret.remaining_cycle_hours >= 0
       /\ ret.remaining_driving_hours >= 0
       /\ ret.remaining_duty_window_hours >= 0

\* C18 witness: more than 70 cycle hours used and a previous drive of more than 14
\* hours: the three values are clamped to 0.
C18_Witness ==
    /\ call.op = "calculate_remaining_drive_time"
    /\ self_current_cycle_used > 70
    /\ PreviousDrivingHours(self_previous_drives) > Hours(14)
    /\ ret.remaining_cycle_hours = 0
    /\ ret.remaining_driving_hours = 0
    /\ ret.remaining_duty_window_hours = 0

\* C19: when driving_compliant is false the first rest spans
\* [start + remaining_driving_hours, that + 10 h]; when duty_window_compliant is false
\* the last rest spans [start + remaining_duty_window_hours, that + 10 h]; with no
\* previous drives these are [start + 11 h, start + 21 h] and [start + 14 h, start + 24 h].
C19_RestWindows ==
    EnforceCalled
    => LET rests == ret.required_rest_periods
           env == ret.remaining_before_trip
           first == rests[1]
           last == rests[Len(rests)]
       IN /\ ~ret.driving_compliant
                => /\ first.start_time = call.start_time + env.remaining_driving_hours
                   /\ first.end_time = first.start_time + Hours(10)
                   /\ NoPriorDrives
                        => /\ first.start_time = call.start_time + Hours(11)
                           /\ first.end_time = call.start_time + Hours(21)
          /\ ~ret.duty_window_compliant
                => /\ last.start_time = call.start_time + env.remaining_duty_window_hours
                   /\ last.end_time = last.start_time + Hours(10)
                   /\ NoPriorDrives
                        => /\ last.start_time = call.start_time + Hours(14)
                           /\ last.end_time = call.start_time + Hours(24)

\* C19 witness: a driver with 3 hours of previous driving exceeds both limits: the
\* driving-limit rest starts 8 hours into the trip and lasts 10 hours.
C19_Witness ==
    /\ EnforceCalled
    /\ PreviousDrivingHours(self_previous_drives) = Hours(3)
    /\ Len(ret.required_rest_periods) = 2
    /\ ret.required_rest_periods[1].start_time = call.start_time + Hours(8)
    /\ ret.required_rest_periods[1].end_time = call.start_time + Hours(18)
    /\ ret.required_rest_periods[2].end_time
           = ret.required_rest_periods[2].start_time + Hours(10)

----------------------------------------------------------------------------
(* The order of the tests in an iteration of the synthesis loop (Spec) *)

\* the cursor lies in the window of rest i and of no rest before it in the list
FirstRestHolding(i) ==
    LET rests == hos_data.required_rest_periods
        Holds(j) == current_time >= rests[j].start_time /\ current_time < rests[j].end_time
    IN /\ i \in 1..Len(rests)
       /\ Holds(i)
       /\ \A j \in 1..(i - 1) : ~Holds(j)

\* C20: an iteration that starts with the cursor inside the window of a required
\* rest emits exactly that rest (the first such in list order) over its whole window,
\* moves the cursor to its end and emits no drive or break.
C20_RestBeforeBreak ==
    [][ \A i \in 1..Len(hos_data.required_rest_periods) :
          (pc = "loop" /\ remaining_hours > 0 /\ FirstRestHolding(i))
          => LET rest == hos_data.required_rest_periods[i]
             IN /\ Len(schedule') = Len(schedule) + 1
                /\ SubSeq(schedule', 1, Len(schedule)) = schedule
                /\ schedule'[Len(schedule')].type = "rest"
                /\ schedule'[Len(schedule')].start_time = rest.start_time
                /\ schedule'[Len(schedule')].end_time = rest.end_time
                /\ current_time' = rest.end_time
                /\ remaining_hours' = remaining_hours ]_vars

\* C20 witness: a rest has just been emitted from a cursor (the end of the break
\* before it) at which a break was also due.
C20_Witness ==
    /\ pc = "loop"
    /\ Len(schedule) >= 2
    /\ schedule[Len(schedule)].type = "rest"
    /\ schedule[Len(schedule) - 1].type = "break"
    /\ current_time = schedule[Len(schedule)].end_time
    /\ BreakIndex(schedule[Len(schedule) - 1].end_time, remaining_hours,
                  hos_data.required_breaks) # 0

----------------------------------------------------------------------------
(* RepeatSpec: two invocations of calculate_optimal_schedule, one after the other. *)
(* The second finds the locals and the instance as the first left them; lines      *)
(* 201-207 (Begin) are what makes them fresh.                                      *)

\* the durations of tests.py (5 and 12 hours) and one that needs both rests
RepeatDurations == { Hours(5), Hours(12), Hours(17) }

\* the values of current_cycle_used of tests.py
RepeatCycles == { 0, 40 }

RepeatInit ==
    /\ origin \in Origins
    /\ destination \in Destinations
    /\ estimated_duration \in RepeatDurations
    /\ start_time \in StartTimes
    /\ current_cycle_used \in RepeatCycles
    /\ pc = "call"
    /\ hos_data = NoHosData
    /\ schedule = << >>
    /\ current_time = 0
    /\ remaining_hours = 0
    /\ result = NoResult
    /\ self_current_cycle_used = 0
    /\ self_previous_drives = << >>
    /\ call = NoCall
    /\ ret = << >>
    /\ earlier = NoEarlier
    /\ other = NoOther
    /\ drawer = NoDrawer
    /\ pdf = NoPdf
    /\ request = NoRequest
    /\ response = NoResponse
    /\ trips = {}

\* the arguments of the invocation in progress
Args == << origin, destination, estimated_duration, start_time, current_cycle_used >>

\* the caller keeps the result and invokes calculate_optimal_schedule again
CallAgain ==
    /\ pc = "done"
    /\ ~earlier.made
    /\ earlier' = [ made |-> TRUE, args |-> Args, result |-> result ]
    /\ origin' \in Origins
    /\ destination' \in Destinations
    /\ estimated_duration' \in RepeatDurations
    /\ start_time' \in StartTimes
    /\ current_cycle_used' \in RepeatCycles
    /\ pc' = "call"
    /\ UNCHANGED << hos_data, schedule, current_time, remaining_hours, result,
                    evalVars, other, renderVars, webVars >>

RepeatNext == Begin \/ LoopRest \/ LoopBreak \/ LoopFinalDrive \/ Return \/ CallAgain

RepeatSpec == RepeatInit /\ [][RepeatNext]_vars

\* C12: an invocation with the arguments of an earlier invocation returns the result
\* the earlier one returned (schedule, end_time and hos_data included), whatever the
\* earlier one left behind.
C12_SameArgsSameResult ==
    (pc = "done" /\ earlier.made /\ earlier.args = Args) => result = earlier.result

\* C12 witness: a second 17-hour invocation (breaks and rests in its schedule) has
\* returned what the first returned.
C12_Witness ==
    /\ pc = "done"
    /\ earlier.made
    /\ earlier.args = Args
    /\ estimated_duration = Hours(17)
    /\ Len(result.schedule) >= 5
    /\ result = earlier.result

----------------------------------------------------------------------------
(* The web layer: HOSCalculationView.post and generate_log of views.py, with the *)
(* request serializer of serializers.py.  A request is served in steps: the      *)
(* checks of the view, then the invocation of calculate_optimal_schedule (the    *)
(* actions Begin .. Return above), then the response.                            *)

\* the largest id of a Trip row
MaxTrips == 2

\* current_cycle_used of the Trip rows: the value of tests.py:159
TRIP_CYCLE_USED == 12

\* a field of a request: missing, present but not of the field's type, or a value
F(k, v) == [ kind |-> k, value |-> v ]

OriginFields == { F("missing", ""), F("value", "New York") }

DestinationFields == { F("value", "Boston") }

\* estimated_duration, in minutes: FloatField takes any number
DurationFields ==
    { F("missing", 0), F("malformed", 0) }
        \cup { F("value", d) : d \in { 0 - Hours(5), 0, Hours(5), Hours(12), Hours(17) } }

StartFields == { F("missing", 0), F("value", 0) }

CycleFields ==
    { F("missing", 0), F("malformed", 0) }
        \cup { F("value", c) : c \in { -1, 0, 40, CYCLE_HOURS_LIMIT, CYCLE_HOURS_LIMIT + 1, 80 } }

\* an entry of previous_drives: a dict that may lack either key
DriveDict(has_start, has_end, s, e) ==
    [ has_start_time |-> has_start, has_end_time |-> has_end,
      start_time |-> s, end_time |-> e ]

DrivesFields ==
    { F("missing", << >>),
      F("malformed", << >>),
      F("value", << >>),
      F("value", << DriveDict(TRUE, TRUE, 0 - Hours(3), 0) >>),
      F("value", << DriveDict(TRUE, TRUE, 0 - Hours(8), 0 - Hours(5)),
                    DriveDict(TRUE, TRUE, 0 - Hours(3), 0) >>),
      F("value", << DriveDict(TRUE, FALSE, 0 - Hours(3), 0) >>),
      F("value", << DriveDict(TRUE, TRUE, 0 - Hours(8), 0 - Hours(5)),
                    DriveDict(FALSE, TRUE, 0 - Hours(3), 0) >>) }

\* the bodies POSTed to calculate_hos/
PostRequests ==
    [ endpoint           : { "calculate_hos" },
      origin             : OriginFields,
      destination        : DestinationFields,
      estimated_duration : DurationFields,
      start_time         : StartFields,
      current_cycle_used : CycleFields,
      previous_drives    : DrivesFields ]

\* the trip_id query parameter of generate_log/: missing, empty, not a number, a number
TripIdParams ==
    { F("missing", 0), F("empty", 0), F("malformed", 0) }
        \cup { F("value", n) : n \in 0..(MaxTrips + 1) }

GetRequests == [ endpoint : { "generate_log" }, trip_id : TripIdParams ]

\* the Trip rows there may be (models.py:5-11)
AllTrips ==
    { [ id |-> i,
        pickup_location    |-> "Test Pickup Location",
        dropoff_location   |-> "Test Dropoff Location",
        current_cycle_used |-> TRIP_CYCLE_USED ] : i \in 1..MaxTrips }

\* a required field (CharField, FloatField, DateTimeField): present and of its type
RequiredFieldValid(f) == f.kind = "value"

\* IntegerFieldValid without the upper limit
IntegerFieldValid_NoMax(f, lo, hi) ==
    f.kind = "missing" \/ (f.kind = "value" /\ f.value >= lo)

\* IntegerField(default=0, min_value=lo, max_value=hi): missing, or an integer in lo..hi
IntegerFieldValid(f, lo, hi) ==
    f.kind = "missing" \/ (f.kind = "value" /\ f.value >= lo /\ f.value <= hi)

\* ListField(child=DictField(), required=False): missing, or a list of dicts
OptionalListValid(f) == f.kind \in { "missing", "value" }

\* serializer.errors of HOSCalculationRequestSerializer: the fields that fail
RequestErrors(req) ==
    { name \in { "origin", "destination", "estimated_duration", "start_time",
                 "current_cycle_used", "previous_drives" } :
        CASE name = "origin"             -> ~RequiredFieldValid(req.origin)
          [] name = "destination"        -> ~RequiredFieldValid(req.destination)
          [] name = "estimated_duration" -> ~RequiredFieldValid(req.estimated_duration)
          [] name = "start_time"         -> ~RequiredFieldValid(req.start_time)
          [] name = "current_cycle_used" ->
                 ~IntegerFieldValid(req.current_cycle_used, 0, CYCLE_HOURS_LIMIT)
          [] name = "previous_drives"    -> ~OptionalListValid(req.previous_drives) }

\* serializer.validated_data.get('current_cycle_used', 0), with the field's default
ValidatedCycleUsed(req) ==
    IF req.current_cycle_used.kind = "value" THEN req.current_cycle_used.value ELSE 0

\* serializer.validated_data.get('previous_drives', [])
ValidatedDrives(req) ==
    IF req.previous_drives.kind = "value" THEN req.previous_drives.value ELSE << >>

\* the check of views.py:53-58 fails for some drive
SomeDriveLacksKey(drives) ==
    \E i \in 1..Len(drives) : ~drives[i].has_start_time \/ ~drives[i].has_end_time

\* HOSCalculationResponseSerializer(data=result).is_valid(): the declared fields
\* (serializers.py:51-88) are all there
ResponseValid(res) ==
    /\ { "origin", "destination", "total_duration_hours", "start_time", "end_time",
         "schedule", "hos_data" } \subseteq DOMAIN res
    /\ { "trip_start_time", "trip_end_time", "trip_duration_hours", "cycle_compliant",
         "driving_compliant", "duty_window_compliant", "required_breaks",
         "required_rest_periods", "current_cycle_hours", "updated_cycle_hours",
         "remaining_before_trip" } \subseteq DOMAIN res.hos_data
    /\ \A i \in 1..Len(res.schedule) :
          { "type", "start_time", "end_time", "duration_hours" } \subseteq DOMAIN res.schedule[i]

\* a response: its status, its Content-Type and Content-Disposition headers ("" for
\* a header that is not set), the keys of its JSON body, the result or the PDF it
\* carries, and the trip its filename names
Response(st, ctype, disp, ks, res, has_pdf, trip) ==
    [ status |-> st, content_type |-> ctype, disposition |-> disp, keys |-> ks,
      body |-> res, pdf |-> has_pdf, filename_trip |-> trip ]

\* JsonResponse({'error': ...}, status=st)
ErrorResponse(st) == Response(st, "application/json", "", { "error" }, NoResult, FALSE, 0)

\* what PDFGenerator.generate_trip_log raises for a trip_id: lines 732-735
TripLookup(rows, id) ==
    IF \E trip \in rows : trip.id = id
    THEN [ raised |-> "none", message |-> "" ]
    ELSE [ raised |-> "ValueError", message |-> "Trip with ID" ]

\* ExceptionStatus with every ValueError answered 400
ExceptionStatus_ValueErrorIs400(exc) ==
    CASE exc.raised = "Trip.DoesNotExist" -> 404
      [] exc.raised = "ValueError"        -> 400
      [] OTHER                            -> 500

\* the except clauses of generate_log: views.py:194-217
ExceptionStatus(exc) ==
    CASE exc.raised = "Trip.DoesNotExist" -> 404
      [] exc.raised = "ValueError" /\ exc.message = "Trip with ID" -> 404
      [] exc.raised = "ValueError"        -> 400
      [] OTHER                            -> 500

ApiInit ==
    /\ request \in PostRequests \cup GetRequests
    /\ trips \in SUBSET AllTrips
    /\ response = NoResponse
    /\ pc = "request"
    /\ origin = ""
    /\ destination = ""
    /\ estimated_duration = 0
    /\ start_time = 0
    /\ current_cycle_used = 0
    /\ hos_data = NoHosData
    /\ schedule = << >>
    /\ current_time = 0
    /\ remaining_hours = 0
    /\ result = NoResult
    /\ self_current_cycle_used = 0
    /\ self_previous_drives = << >>
    /\ call = NoCall
    /\ ret = << >>
    /\ earlier = NoEarlier
    /\ other = NoOther
    /\ drawer = NoDrawer
    /\ pdf = NoPdf

\* what a step of the web layer leaves alone when it only responds
RespondFrame ==
    UNCHANGED << request, trips, origin, destination, estimated_duration, start_time,
                 current_cycle_used, hos_data, schedule, current_time, remaining_hours,
                 result, evalVars, earlier, other, renderVars >>

\* post: the serializer is not valid: views.py:41-43 and 80
PostInvalid ==
    /\ pc = "request"
    /\ request.endpoint = "calculate_hos"
    /\ RequestErrors(request) # {}
    /\ response' = Response(400, "application/json", "", RequestErrors(request),
                            NoResult, FALSE, 0)
    /\ pc' = "responded"
    /\ RespondFrame

\* post: a previous drive lacks start_time or end_time: views.py:53-58
PostBadDrive ==
    /\ pc = "request"
    /\ request.endpoint = "calculate_hos"
    /\ RequestErrors(request) = {}
    /\ SomeDriveLacksKey(ValidatedDrives(request))
    /\ response' = ErrorResponse(400)
    /\ pc' = "responded"
    /\ RespondFrame

\* post: HOSCalculator.calculate_optimal_schedule is called: views.py:45-67
PostInvoke ==
    /\ pc = "request"
    /\ request.endpoint = "calculate_hos"
    /\ RequestErrors(request) = {}
    /\ ~SomeDriveLacksKey(ValidatedDrives(request))
    /\ origin' = request.origin.value
    /\ destination' = request.destination.value
    /\ estimated_duration' = request.estimated_duration.value
    /\ start_time' = request.start_time.value
    /\ current_cycle_used' = ValidatedCycleUsed(request)
    /\ pc' = "call"
    /\ UNCHANGED << request, response, trips, hos_data, schedule, current_time,
                    remaining_hours, result, evalVars, earlier, other, renderVars >>

\* post: the result is validated and returned: views.py:69-78
PostRespond ==
    /\ pc = "done"
    /\ request.endpoint = "calculate_hos"
    /\ response' = IF ResponseValid(result)
                   THEN Response(200, "application/json", "", DOMAIN result, result, FALSE, 0)
                   ELSE Response(500, "application/json", "", { "error", "details" },
                                 NoResult, FALSE, 0)
    /\ pc' = "responded"
    /\ RespondFrame

\* generate_log: no trip_id: views.py:152-158
LogMissing ==
    /\ pc = "request"
    /\ request.endpoint = "generate_log"
    /\ request.trip_id.kind \in { "missing", "empty" }
    /\ response' = ErrorResponse(400)
    /\ pc' = "responded"
    /\ RespondFrame

\* generate_log: int(trip_id) raises ValueError: views.py:160-166
LogNotInteger ==
    /\ pc = "request"
    /\ request.endpoint = "generate_log"
    /\ request.trip_id.kind = "malformed"
    /\ response' = ErrorResponse(400)
    /\ pc' = "responded"
    /\ RespondFrame

\* generate_log: generate_trip_log raises: views.py:174-182 and 194-217
LogRaises ==
    /\ pc = "request"
    /\ request.endpoint = "generate_log"
    /\ request.trip_id.kind = "value"
    /\ TripLookup(trips, request.trip_id.value).raised # "none"
    /\ response' = ErrorResponse(ExceptionStatus(TripLookup(trips, request.trip_id.value)))
    /\ pc' = "responded"
    /\ RespondFrame

\* generate_log: the trip is found and PDFGenerator.__init__ computes its schedule:
\* pdf_generator.py:59-75 and 737-743 (8 hours from 8 AM)
LogInvoke ==
    /\ pc = "request"
    /\ request.endpoint = "generate_log"
    /\ request.trip_id.kind = "value"
    /\ TripLookup(trips, request.trip_id.value).raised = "none"
    /\ LET trip == CHOOSE row \in trips : row.id = request.trip_id.value
       IN /\ origin' = trip.pickup_location
          /\ destination' = trip.dropoff_location
          /\ current_cycle_used' = trip.current_cycle_used
    /\ estimated_duration' = Hours(8)
    /\ start_time' = Hours(8)
    /\ pc' = "call"
    /\ UNCHANGED << request, response, trips, hos_data, schedule, current_time,
                    remaining_hours, result, evalVars, earlier, other, renderVars >>

\* generate_log: the PDF is returned, base64-encoded in a JSON body: views.py:184-192
LogRespond ==
    /\ pc = "done"
    /\ request.endpoint = "generate_log"
    /\ response' = Response(200, "application/json", "", { "pdf_data", "filename" },
                            NoResult, TRUE, request.trip_id.value)
    /\ pc' = "responded"
    /\ RespondFrame

ApiNext ==
    \/ PostInvalid \/ PostBadDrive \/ PostInvoke \/ PostRespond
    \/ LogMissing \/ LogNotInteger \/ LogRaises \/ LogInvoke \/ LogRespond
    \/ Begin \/ LoopRest \/ LoopBreak \/ LoopFinalDrive \/ Return

ApiSpec == ApiInit /\ [][ApiNext]_vars

----------------------------------------------------------------------------
(* The claims about the web layer, checked under ApiSpec.                       *)

\* HOSCalculator.calculate_optimal_schedule has been invoked for the request
CoreInvoked == pc \in { "call", "loop", "done" }

Responded == pc = "responded"

\* the request's current_cycle_used is a number outside 0..70
CycleOutOfRange ==
    /\ request.current_cycle_used.kind = "value"
    /\ request.current_cycle_used.value \notin 0..CYCLE_HOURS_LIMIT

\* the request passes every check of the view
RequestAccepted ==
    /\ RequestErrors(request) = {}
    /\ ~SomeDriveLacksKey(ValidatedDrives(request))

\* C13: a POST to calculate_hos whose current_cycle_used is outside 0..70 or whose
\* estimated_duration is missing never has calculate_optimal_schedule invoked for
\* it and is answered 400 with the offending field named in the body; a request
\* that passes the checks is answered 200 with origin, destination, schedule and
\* hos_data in the body.
C13_RejectedAtBoundary ==
    request.endpoint = "calculate_hos" =>
        /\ CycleOutOfRange =>
              /\ ~CoreInvoked
              /\ Responded => /\ response.status = 400
                              /\ "current_cycle_used" \in response.keys
        /\ request.estimated_duration.kind = "missing" =>
              /\ ~CoreInvoked
              /\ Responded => /\ response.status = 400
                              /\ "estimated_duration" \in response.keys
        /\ (RequestAccepted /\ Responded) =>
              /\ response.status = 200
              /\ { "origin", "destination", "schedule", "hos_data" } \subseteq response.keys
              /\ response.body = result

\* the request of tests.py:137-150 (current_cycle_used 80) has been answered 400
C13_Witness ==
    /\ request.endpoint = "calculate_hos"
    /\ Responded
    /\ request.current_cycle_used = F("value", 80)
    /\ request.estimated_duration.kind = "value"
    /\ response.status = 400
    /\ response.keys = { "current_cycle_used" }

\* C14: a calculation request whose estimated_duration is negative or zero is
\* answered with a validation error, and calculate_optimal_schedule is only ever
\* invoked by the API with a positive estimated_duration.
C14_OnlyPositiveDurationsReachCore ==
    request.endpoint = "calculate_hos" =>
        /\ CoreInvoked => estimated_duration > 0
        /\ ( /\ Responded
             /\ request.estimated_duration.kind = "value"
             /\ request.estimated_duration.value <= 0 ) => response.status = 400

\* the previous_drives of the request as the evaluator's list of intervals
DriveIntervals(drives) ==
    [ i \in 1..Len(drives) |->
        [ start_time |-> drives[i].start_time, end_time |-> drives[i].end_time ] ]

\* C15: when a request for a trip of positive duration supplies well-formed
\* previous_drives, the returned
\* hos_data.remaining_before_trip and required_breaks are those of an evaluator
\* built from the request's cycle_used and previous_drives.
C15_PreviousDrivesReachEvaluator ==
    ( /\ request.endpoint = "calculate_hos"
      /\ Responded
      /\ response.status = 200
      /\ request.estimated_duration.value > 0
      /\ ValidatedDrives(request) # << >> ) =>
        LET drives == DriveIntervals(ValidatedDrives(request))
        IN /\ response.body.hos_data.remaining_before_trip =
                  calculate_remaining_drive_time(ValidatedCycleUsed(request), drives)
           /\ response.body.hos_data.required_breaks =
                  calculate_required_breaks(drives, request.start_time.value,
                                            request.estimated_duration.value)

\* C16: generate_log answers 400 when trip_id is missing or not an integer and 404
\* when no Trip has that id (the lookup's ValueError maps to 404, never to 400 or
\* 500); in none of these cases is the generator's schedule computed or a PDF
\* returned.
C16_LogErrors ==
    request.endpoint = "generate_log" =>
        /\ request.trip_id.kind # "value" =>
              /\ ~CoreInvoked
              /\ Responded => (response.status = 400 /\ ~response.pdf)
        /\ ( /\ request.trip_id.kind = "value"
             /\ ~(\E trip \in trips : trip.id = request.trip_id.value) ) =>
              /\ ~CoreInvoked
              /\ Responded => (response.status = 404 /\ ~response.pdf)

\* a request for a trip that does not exist, while other trips do, has been answered 404
C16_Witness ==
    /\ request.endpoint = "generate_log"
    /\ Responded
    /\ request.trip_id.kind = "value"
    /\ trips # {}
    /\ ~(\E trip \in trips : trip.id = request.trip_id.value)
    /\ response.status = 404
    /\ response.keys = { "error" }

\* C17: a generate_log request for an existing trip is answered 200 with
\* Content-Type application/pdf, a Content-Disposition attachment header naming
\* driver_log_trip_<id>.pdf, and a non-empty body.
C17_PdfAttachment ==
    ( /\ request.endpoint = "generate_log"
      /\ Responded
      /\ request.trip_id.kind = "value"
      /\ \E trip \in trips : trip.id = request.trip_id.value ) =>
        /\ response.status = 200
        /\ response.content_type = "application/pdf"
        /\ response.disposition = "attachment"
        /\ response.filename_trip = request.trip_id.value
        /\ response.pdf

----------------------------------------------------------------------------
(* Termination of the synthesis loop.  The while loop runs to its end once    *)
(* started: FairSpec is Spec with the steps of the invocation always taken.   *)

FairSpec == Spec /\ WF_vars(Next)

InLoop == pc = "loop"

\* the last segment of the schedule being built is the final drive
FinalDriveEmitted ==
    /\ schedule # << >>
    /\ schedule[Len(schedule)].type = "drive"
    /\ schedule[Len(schedule)].end_location = destination

\* no rest and no break stands twice in the schedule being built, and each is one
\* of hos_data
EmittedAtMostOnce ==
    /\ \A i, j \in 1..Len(schedule) :
          (i < j /\ schedule[i].type # "drive") => schedule[i] # schedule[j]
    /\ \A i \in 1..Len(schedule) :
          /\ schedule[i].type = "rest" =>
                \E k \in 1..Len(hos_data.required_rest_periods) :
                    schedule[i] = RestSegment(hos_data.required_rest_periods[k])
          /\ schedule[i].type = "break" =>
                \E k \in 1..Len(hos_data.required_breaks) :
                    schedule[i] = BreakSegment(hos_data.required_breaks[k])

\* what holds in every state of the loop and after it
LoopInvariant ==
    (InLoop \/ Returned) =>
        /\ EmittedAtMostOnce
        /\ remaining_hours >= 0
        /\ (remaining_hours = 0) <=> FinalDriveEmitted
        /\ Returned => /\ remaining_hours = 0
                       /\ Segs = schedule
                       /\ IsDrive(Len(Segs))

\* an iteration of the loop: pc stays "loop" and the schedule grows
Iteration == InLoop /\ pc' = "loop" /\ schedule' # schedule

\* the original statement of C21 about the cursor: it strictly advances on every
\* iteration.
C21_CursorAdvancesEveryIteration ==
    [][Iteration => current_time' > current_time]_vars

\* C21: for every estimated_duration > 0 the synthesis loop terminates; each
\* required rest and break is emitted at most once; the cursor strictly advances on
\* every iteration that emits a rest or a break, and the iteration that emits the
\* final drive leaves the cursor where it is and sets remaining_hours to 0; the loop
\* ends exactly when the final drive has been emitted, so the last segment of the
\* returned schedule is a drive.
C21_LoopTerminates ==
    /\ []LoopInvariant
    /\ [][Iteration =>
            \/ /\ remaining_hours' > 0
               /\ current_time' > current_time
            \/ /\ remaining_hours' = 0
               /\ current_time' = current_time
               /\ Len(schedule') = Len(schedule) + 1]_vars
    /\ <>Returned

\* a loop that emitted a rest, a break and the final drive has ended
C21_Witness ==
    /\ Returned
    /\ Len(Segs) >= 6
    /\ \E i \in 1..Len(Segs) : Segs[i].type = "rest"
    /\ \E i \in 1..Len(Segs) : Segs[i].type = "break"
    /\ remaining_hours = 0
    /\ current_time < Segs[Len(Segs)].end_time

----------------------------------------------------------------------------
(* PriorSpec: an HOSCalculator instance with several previous drives, in any  *)
(* order, and calls of its three methods.                                      *)

\* instants before the trip at which a previous drive starts or ends, in hours back
PriorInstants == { 0 - Hours(11), 0 - Hours(8), 0 }

\* the previous drives: start_time <= end_time, zero length included
PriorIntervals ==
    { iv \in [ start_time : PriorInstants, end_time : PriorInstants ] :
        iv.start_time <= iv.end_time }

\* lists of previous drives, in any order, repetitions and overlaps included
PriorLists == UNION { [ 1..n -> PriorIntervals ] : n \in 0..(MaxDrives + 1) }

\* HOSCalculator(current_cycle_used, previous_drives): lines 20-29
PriorInit ==
    /\ self_previous_drives \in PriorLists
    /\ self_current_cycle_used \in RepeatCycles
    /\ call = NoCall
    /\ ret = << >>
    /\ earlier = NoEarlier
    /\ other = NoOther
    /\ drawer = NoDrawer
    /\ pdf = NoPdf
    /\ request = NoRequest
    /\ response = NoResponse
    /\ trips = {}
    /\ origin = ""
    /\ destination = ""
    /\ estimated_duration = 0
    /\ start_time = 0
    /\ current_cycle_used = 0
    /\ pc = "idle"
    /\ hos_data = NoHosData
    /\ schedule = << >>
    /\ current_time = 0
    /\ remaining_hours = 0
    /\ result = NoResult

PriorSpec == PriorInit /\ [][EvalNext]_vars

\* the hours of driving of the previous drives of the instance, in the order given
PriorDriving == SumSeq(DriveDurations(self_previous_drives))

\* the threshold of the first break: 8 - (a mod 8) hours
FirstThreshold == Hours(8) - (PriorDriving % Hours(8))

\* the number of integers k >= 0 with threshold + 8k hours < d
BreaksDueAfter(threshold, d) ==
    Cardinality({ k \in 0..(d \div Hours(8) + 1) : threshold + Hours(8 * k) < d })

\* C22: with previous drives totalling a hours, calculate_required_breaks places the
\* first break at start + (8 - (a mod 8)) hours whenever the trip is longer than
\* that threshold, and every later break after 8 more hours of driving; when a is
\* a multiple of 8 the first threshold is 8 hours; the loop ends when the remaining
\* duration is <= the threshold, so there is one break for each threshold passed.
C22_FirstBreakAfterPriorDriving ==
    call.op = "calculate_required_breaks" =>
        LET d == call.trip_duration_hours
        IN /\ FirstThreshold > 0 /\ FirstThreshold <= Hours(8)
           /\ PriorDriving % Hours(8) = 0 => FirstThreshold = Hours(8)
           /\ d > FirstThreshold <=> ret # << >>
           /\ Len(ret) = BreaksDueAfter(FirstThreshold, d)
           /\ \A k \in 1..Len(ret) :
                 /\ ret[k].start_time =
                        IF k = 1 THEN call.start_time + FirstThreshold
                                 ELSE ret[k - 1].end_time + Hours(8)
                 /\ ret[k].end_time = ret[k].start_time + 30

\* two previous drives of 8 and 3 hours, given out of order: the first break comes
\* after 5 hours and the second 8 driving hours later
C22_Witness ==
    /\ call.op = "calculate_required_breaks"
    /\ Len(self_previous_drives) = 2
    /\ self_previous_drives[1].start_time > self_previous_drives[2].start_time
    /\ PriorDriving = Hours(11)
    /\ Len(ret) >= 2
    /\ ret[1].start_time = call.start_time + Hours(5)
    /\ ret[2].start_time = call.start_time + Hours(13) + 30

\* the previous drives i and j of the instance share no more than an instant
Disjoint(i, j) ==
    \/ self_previous_drives[i].end_time <= self_previous_drives[j].start_time
    \/ self_previous_drives[j].end_time <= self_previous_drives[i].start_time

NonOverlapping ==
    \A i, j \in 1..Len(self_previous_drives) : i # j => Disjoint(i, j)

EarliestStart ==
    CHOOSE s \in { self_previous_drives[i].start_time : i \in 1..Len(self_previous_drives) } :
        \A i \in 1..Len(self_previous_drives) : s <= self_previous_drives[i].start_time

LatestEnd ==
    CHOOSE e \in { self_previous_drives[i].end_time : i \in 1..Len(self_previous_drives) } :
        \A i \in 1..Len(self_previous_drives) : e >= self_previous_drives[i].end_time

RemainingCalled == call.op = "calculate_remaining_drive_time"

\* C23: with a non-empty list of non-overlapping previous drives, in any order,
\* calculate_remaining_drive_time returns remaining_driving_hours
\* = max(0, 11 - sum of the durations) and remaining_duty_window_hours
\* = max(0, 14 - (latest end - earliest start)).
C23_EnvelopeFromPriorDrives ==
    ( RemainingCalled /\ self_previous_drives # << >> /\ NonOverlapping ) =>
        /\ ret.remaining_driving_hours = Max(0, Hours(11) - PriorDriving)
        /\ ret.remaining_duty_window_hours = Max(0, Hours(14) - (LatestEnd - EarliestStart))

\* C23 for previous drives of positive length: the part of the claim the code keeps
C23_PositiveLengthDrives ==
    ( /\ RemainingCalled
      /\ self_previous_drives # << >>
      /\ NonOverlapping
      /\ \A i \in 1..Len(self_previous_drives) :
            self_previous_drives[i].start_time < self_previous_drives[i].end_time ) =>
        /\ ret.remaining_driving_hours = Max(0, Hours(11) - PriorDriving)
        /\ ret.remaining_duty_window_hours = Max(0, Hours(14) - (LatestEnd - EarliestStart))

\* the remaining driving and duty-window hours of an instance holding `drives`
Envelope(drives) ==
    LET remaining == calculate_remaining_drive_time(self_current_cycle_used, drives)
    IN << remaining.remaining_driving_hours, remaining.remaining_duty_window_hours >>

\* the lists that hold the elements of `drives` in another order
Reorderings(drives) ==
    { [ i \in 1..Len(drives) |-> drives[f[i]] ] :
        f \in { g \in [ 1..Len(drives) -> 1..Len(drives) ] :
                  \A a, b \in 1..Len(drives) : a # b => g[a] # g[b] } }

\* C30: every permutation of the list of previous drives yields the same
\* remaining_driving_hours and remaining_duty_window_hours, intervals that share a
\* start time or have zero length included.
C30_OrderIndependent ==
    RemainingCalled =>
        \A other_order \in Reorderings(self_previous_drives) :
            Envelope(other_order) = << ret.remaining_driving_hours,
                                       ret.remaining_duty_window_hours >>

\* what the call c returns on an instance with these fields
Recomputed(c, cycle_used, previous_drives) ==
    CASE c.op = "calculate_remaining_drive_time" ->
           calculate_remaining_drive_time(cycle_used, previous_drives)
      [] c.op = "calculate_required_breaks" ->
           calculate_required_breaks(previous_drives, c.start_time, c.trip_duration_hours)
      [] c.op = "enforce_hos_limits" ->
           enforce_hos_limits(cycle_used, previous_drives, c.start_time,
                              c.trip_duration_hours)

\* C29: every call of calculate_remaining_drive_time, calculate_required_breaks and
\* enforce_hos_limits leaves current_cycle_used and the previous_drives list (its
\* elements and their order) as they were, so the same call made again on the
\* instance returns the same result; updated_cycle_hours is reported as
\* current_cycle_used + duration and not stored.
C29_EvaluatorReadOnly ==
    [][ /\ self_current_cycle_used' = self_current_cycle_used
        /\ self_previous_drives' = self_previous_drives
        /\ ret' = Recomputed(call', self_current_cycle_used', self_previous_drives')
        /\ call'.op = "enforce_hos_limits" =>
              ret'.updated_cycle_hours =
                  Hours(self_current_cycle_used') + call'.trip_duration_hours ]_vars

\* enforce_hos_limits has reported an updated cycle for an instance that holds two
\* previous drives out of order, after another call
C29_Witness ==
    /\ call.op = "enforce_hos_limits"
    /\ Len(self_previous_drives) = 2
    /\ self_previous_drives[1].start_time > self_previous_drives[2].start_time
    /\ self_current_cycle_used = 40
    /\ ret.current_cycle_hours = 40
    /\ ret.updated_cycle_hours = Hours(40) + Hours(12)

----------------------------------------------------------------------------
(* More properties of the schedule returned by calculate_optimal_schedule (Spec) *)

\* the indices of the drive segments of the returned schedule
DriveIndices == { i \in 1..Len(Segs) : IsDrive(i) }

\* C24: in every returned schedule the first segment is a drive that starts at the
\* origin and every later drive starts 'En route'; the last segment is a drive that
\* ends at the destination and every earlier drive ends at 'Break location'; so
\* exactly one drive carries the origin and exactly one the destination.
C24_OriginAndDestinationOnce ==
    Returned =>
        /\ Segs # << >>
        /\ IsDrive(1) /\ Segs[1].start_location = result.origin
        /\ IsDrive(Len(Segs)) /\ Segs[Len(Segs)].end_location = result.destination
        /\ \A i \in DriveIndices :
              /\ i > 1 => Segs[i].start_location = "En route"
              /\ i < Len(Segs) => Segs[i].end_location = "Break location"
        /\ Cardinality({ i \in DriveIndices : Segs[i].start_location = result.origin }) = 1
        /\ Cardinality({ i \in DriveIndices : Segs[i].end_location = result.destination }) = 1

\* a returned schedule with four drives, rests and breaks between them
C24_Witness ==
    /\ Returned
    /\ Cardinality(DriveIndices) >= 4
    /\ \E i \in 1..Len(Segs) : Segs[i].type = "rest"
    /\ Segs[1].start_location = "New York"
    /\ Segs[Len(Segs)].end_location = "Boston"
    /\ \E i \in DriveIndices : Segs[i].start_location = "En route"
                                /\ Segs[i].end_location = "Break location"

\* C28: the durations of the drive segments of a returned schedule sum to
\* estimated_duration, every drive segment has a strictly positive duration, and
\* every segment's duration_hours is its end_time minus its start_time.
C28_DrivingConserved ==
    Returned =>
        /\ DriveHoursBetween(1, Len(Segs)) = result.total_duration_hours
        /\ result.total_duration_hours = estimated_duration
        /\ \A i \in DriveIndices : Segs[i].duration_hours > 0
        /\ \A i \in 1..Len(Segs) :
              Segs[i].duration_hours = Segs[i].end_time - Segs[i].start_time

\* a 26-hour trip returned as four drives, of 8, 8, 1 and 9 hours
C28_Witness ==
    /\ Returned
    /\ estimated_duration = Hours(26)
    /\ Cardinality(DriveIndices) = 4
    /\ Segs[1].duration_hours = Hours(8)
    /\ Segs[Len(Segs)].duration_hours = Hours(9)
    /\ \E i \in 1..Len(Segs) : Segs[i].type = "rest"

----------------------------------------------------------------------------
(* ConcSpec: two invocations of calculate_optimal_schedule at the same time,    *)
(* as two requests served by two threads make them.  One invocation runs (the   *)
(* variables of Spec); the other is suspended in `other`.  A switch may come     *)
(* between any two steps.                                                        *)

\* calculate_optimal_schedule run alone, from the state of its locals: the while
\* loop of lines 210-277
RECURSIVE ScheduleFrom(_, _, _, _, _, _)
ScheduleFrom(sched, cur_time, remaining, hos, org, dest) ==
    IF ~(remaining > 0) THEN sched
    ELSE IF RestIndex(cur_time, hos.required_rest_periods) # 0
    THEN LET rest == hos.required_rest_periods[RestIndex(cur_time, hos.required_rest_periods)]
         IN ScheduleFrom(Append(sched, RestSegment(rest)), rest.end_time, remaining,
                         hos, org, dest)
    ELSE IF BreakIndex(cur_time, remaining, hos.required_breaks) # 0
    THEN LET br == hos.required_breaks[BreakIndex(cur_time, remaining, hos.required_breaks)]
             drive == DriveToBreakSegment(sched, org, cur_time, br)
         IN ScheduleFrom(sched \o << drive, BreakSegment(br) >>, br.end_time,
                         remaining - drive.duration_hours, hos, org, dest)
    ELSE ScheduleFrom(Append(sched, FinalDriveSegment(sched, org, dest, cur_time, remaining)),
                      cur_time, 0, hos, org, dest)

\* the result of calculate_optimal_schedule run alone: lines 201-289
calculate_optimal_schedule(org, dest, duration, trip_start, cycle_used) ==
    LET hos == enforce_hos_limits(cycle_used, << >>, trip_start, duration)
        sched == ScheduleFrom(<< >>, trip_start, duration, hos, org, dest)
    IN [ origin               |-> org,
         destination          |-> dest,
         total_duration_hours |-> duration,
         start_time           |-> trip_start,
         end_time             |-> ResultEndTime(trip_start, duration, sched),
         schedule             |-> sched,
         hos_data             |-> hos ]

\* the running invocation: its arguments, its calculator, its locals, its result
Frame ==
    [ origin |-> origin, destination |-> destination,
      estimated_duration |-> estimated_duration, start_time |-> start_time,
      current_cycle_used |-> current_cycle_used,
      self_current_cycle_used |-> self_current_cycle_used,
      self_previous_drives |-> self_previous_drives,
      pc |-> pc, hos_data |-> hos_data, schedule |-> schedule,
      current_time |-> current_time, remaining_hours |-> remaining_hours,
      result |-> result ]

\* an invocation that has not started: the call of views.py:61-67
NewFrame(org, dest, duration, trip_start, cycle_used) ==
    [ origin |-> org, destination |-> dest,
      estimated_duration |-> duration, start_time |-> trip_start,
      current_cycle_used |-> cycle_used,
      self_current_cycle_used |-> 0, self_previous_drives |-> << >>,
      pc |-> "call", hos_data |-> NoHosData, schedule |-> << >>,
      current_time |-> 0, remaining_hours |-> 0, result |-> NoResult ]

ConcInit ==
    /\ origin \in Origins
    /\ destination \in Destinations
    /\ estimated_duration \in RepeatDurations
    /\ start_time \in StartTimes
    /\ current_cycle_used \in RepeatCycles
    /\ pc = "call"
    /\ hos_data = NoHosData
    /\ schedule = << >>
    /\ current_time = 0
    /\ remaining_hours = 0
    /\ result = NoResult
    /\ self_current_cycle_used = 0
    /\ self_previous_drives = << >>
    /\ call = NoCall
    /\ ret = << >>
    /\ earlier = NoEarlier
    /\ other \in { NewFrame(org, dest, d, s, c) :
                     org \in Origins, dest \in Destinations, d \in RepeatDurations,
                     s \in StartTimes, c \in RepeatCycles }
    /\ drawer = NoDrawer
    /\ pdf = NoPdf
    /\ request = NoRequest
    /\ response = NoResponse
    /\ trips = {}

\* Switch with one schedule list for both invocations
Switch_SharedSchedule ==
    /\ other' = Frame
    /\ origin' = other.origin
    /\ destination' = other.destination
    /\ estimated_duration' = other.estimated_duration
    /\ start_time' = other.start_time
    /\ current_cycle_used' = other.current_cycle_used
    /\ self_current_cycle_used' = other.self_current_cycle_used
    /\ self_previous_drives' = other.self_previous_drives
    /\ pc' = other.pc
    /\ hos_data' = other.hos_data
    /\ schedule' = schedule
    /\ current_time' = other.current_time
    /\ remaining_hours' = other.remaining_hours
    /\ result' = other.result
    /\ UNCHANGED << call, ret, earlier, renderVars, webVars >>

\* the thread of the other request runs on: each invocation has its own frame
\* (hos_calculator.py:201-207), so what runs now is the other's arguments,
\* calculator, hos_data, schedule, current_time and remaining_hours
Switch ==
    /\ other' = Frame
    /\ origin' = other.origin
    /\ destination' = other.destination
    /\ estimated_duration' = other.estimated_duration
    /\ start_time' = other.start_time
    /\ current_cycle_used' = other.current_cycle_used
    /\ self_current_cycle_used' = other.self_current_cycle_used
    /\ self_previous_drives' = other.self_previous_drives
    /\ pc' = other.pc
    /\ hos_data' = other.hos_data
    /\ schedule' = other.schedule
    /\ current_time' = other.current_time
    /\ remaining_hours' = other.remaining_hours
    /\ result' = other.result
    /\ UNCHANGED << call, ret, earlier, renderVars, webVars >>

ConcNext == Begin \/ LoopRest \/ LoopBreak \/ LoopFinalDrive \/ Return \/ Switch

ConcSpec == ConcInit /\ [][ConcNext]_vars

\* the result the invocation of frame f returns when run alone
Alone(f) ==
    calculate_optimal_schedule(f.origin, f.destination, f.estimated_duration,
                               f.start_time, f.current_cycle_used)

\* C27: for any interleaving of the steps of two invocations of
\* calculate_optimal_schedule, each returns the result it returns when run alone.
C27_NoInterference ==
    /\ Returned => result = Alone(Frame)
    /\ other.pc = "done" => other.result = Alone(other)

\* one invocation has returned its own result while the other, started before and
\* with other arguments, is suspended in the middle of its loop
C27_Witness ==
    /\ Returned
    /\ other.pc = "loop"
    /\ other.schedule # << >>
    /\ other.remaining_hours > 0
    /\ estimated_duration = Hours(17)
    /\ other.estimated_duration = Hours(12)
    /\ current_cycle_used # other.current_cycle_used
    /\ result = Alone(Frame)
    /\ result.schedule # Alone(other).schedule

\* the result built step by step is the result of the loop run at once
StepsAgreeWithLoop == Returned => result = Alone(Frame)

----------------------------------------------------------------------------
(* GridSpec: StatusLineDrawer._add_implied_segments (grid_drawer.py:162-213),  *)
(* one action per step of the method, on the list draw() has sorted.            *)

\* the grid has this many steps of three hours
MaxGridSteps == 8

\* the longest list of segments given to the drawer
MaxSegments == 3

GridInstants == { Hours(3 * k) : k \in 0..MaxGridSteps }

\* the grid of the drawer: self.start_time and self.end_time
GridStart == Hours(0)

GridEnd == Hours(3 * MaxGridSteps)

\* a segment of the schedule, of positive length
GridSegments ==
    { seg \in [ type : { "drive" }, start_time : GridInstants, end_time : GridInstants ] :
        seg.start_time < seg.end_time }

\* the lists of at most n non-overlapping segments of `all`, sorted by start_time,
\* that start at or after `from`
RECURSIVE SortedSegmentLists(_, _, _)
SortedSegmentLists(all, from, n) ==
    IF n = 0 THEN { << >> }
    ELSE { << >> } \cup
         UNION { { << seg >> \o rest : rest \in SortedSegmentLists(all, seg.end_time, n - 1) } :
                   seg \in { g \in all : g.start_time >= from } }

\* the dict of an implied segment
OffDuty(from, to) == [ type |-> "off_duty", start_time |-> from, end_time |-> to ]

\* segments.insert(i, x), i counted from 0
InsertAt(segments, i, x) ==
    SubSeq(segments, 1, i) \o << x >> \o SubSeq(segments, i + 1, Len(segments))

GridInit ==
    /\ \E segments \in SortedSegmentLists(GridSegments, GridStart, MaxSegments) :
          drawer = [ pc |-> "start", input |-> segments, segments |-> segments,
                     start_time |-> GridStart, end_time |-> GridEnd, i |-> 0, n |-> 0 ]
    /\ pdf = NoPdf
    /\ other = NoOther
    /\ earlier = NoEarlier
    /\ request = NoRequest
    /\ response = NoResponse
    /\ trips = {}
    /\ self_current_cycle_used = 0
    /\ self_previous_drives = << >>
    /\ call = NoCall
    /\ ret = << >>
    /\ origin = ""
    /\ destination = ""
    /\ estimated_duration = 0
    /\ start_time = 0
    /\ current_cycle_used = 0
    /\ pc = "idle"
    /\ hos_data = NoHosData
    /\ schedule = << >>
    /\ current_time = 0
    /\ remaining_hours = 0
    /\ result = NoResult

\* what the steps of the drawer leave alone
DrawerFrame == UNCHANGED << evalVars, synthVars, earlier, other, pdf, webVars >>

\* lines 169-176: no segments, one off_duty segment over the whole grid
ImpliedWholeGrid ==
    /\ drawer.pc = "start"
    /\ drawer.segments = << >>
    /\ drawer' = [ drawer EXCEPT !.segments = << OffDuty(drawer.start_time, drawer.end_time) >>,
                                 !.pc = "done" ]
    /\ DrawerFrame

\* lines 178-188, and the range(1, len(segments)) of line 191, taken once
ImpliedFirst ==
    /\ drawer.pc = "start"
    /\ drawer.segments # << >>
    /\ LET first_start == drawer.segments[1].start_time
           segments == IF first_start > drawer.start_time
                       THEN InsertAt(drawer.segments, 0, OffDuty(drawer.start_time, first_start))
                       ELSE drawer.segments
       IN drawer' = [ drawer EXCEPT !.segments = segments, !.pc = "gaps",
                                    !.i = 1, !.n = Len(segments) ]
    /\ DrawerFrame

\* one iteration of the loop of lines 191-201: segments[i-1] and segments[i]
ImpliedGap ==
    /\ drawer.pc = "gaps"
    /\ drawer.i < drawer.n
    /\ LET prev_end == drawer.segments[drawer.i].end_time
           curr_start == drawer.segments[drawer.i + 1].start_time
       IN IF curr_start > prev_end
          THEN drawer' = [ drawer EXCEPT
                             !.segments = InsertAt(drawer.segments, drawer.i,
                                                   OffDuty(prev_end, curr_start)),
                             !.i = drawer.i + 1 ]
          ELSE drawer' = [ drawer EXCEPT !.i = drawer.i + 1 ]
    /\ DrawerFrame

\* lines 203-213: the loop is over; off_duty up to the end of the grid
ImpliedLast ==
    /\ drawer.pc = "gaps"
    /\ ~(drawer.i < drawer.n)
    /\ LET last_end == drawer.segments[Len(drawer.segments)].end_time
       IN drawer' = [ drawer EXCEPT
                        !.segments = IF last_end < drawer.end_time
                                     THEN Append(drawer.segments,
                                                 OffDuty(last_end, drawer.end_time))
                                     ELSE drawer.segments,
                        !.pc = "done" ]
    /\ DrawerFrame

GridNext == ImpliedWholeGrid \/ ImpliedFirst \/ ImpliedGap \/ ImpliedLast

GridSpec == GridInit /\ [][GridNext]_vars

\* the list covers the grid without gaps
CoversGrid(segments, from, to) ==
    /\ segments # << >>
    /\ segments[1].start_time = from
    /\ segments[Len(segments)].end_time = to
    /\ \A k \in 1..(Len(segments) - 1) : segments[k].end_time = segments[k + 1].start_time

\* the number of gaps between consecutive segments of the list
InteriorGaps(segments) ==
    Cardinality({ k \in 1..(Len(segments) - 1) :
                    segments[k].end_time < segments[k + 1].start_time })

\* C25: _add_implied_segments, applied to non-overlapping segments sorted by
\* start_time inside the grid, leaves a list that covers the grid without gaps,
\* however many gaps the input has; an empty input becomes one off_duty segment
\* over the whole grid.
C25_GridCovered ==
    drawer.pc = "done" =>
        /\ CoversGrid(drawer.segments, drawer.start_time, drawer.end_time)
        /\ drawer.input = << >> =>
              drawer.segments = << OffDuty(drawer.start_time, drawer.end_time) >>

\* C25 for inputs with at most one gap between consecutive segments: the part of
\* the claim the code keeps
C25_AtMostOneInteriorGap ==
    (drawer.pc = "done" /\ InteriorGaps(drawer.input) <= 1) =>
        CoversGrid(drawer.segments, drawer.start_time, drawer.end_time)

----------------------------------------------------------------------------
(* PdfSpec: PDFGenerator.generate_pdf (pdf_generator.py:77-163 and 479-515):   *)
(* the days covered, then one log sheet per day.  A date is a number of days,   *)
(* an instant a number of minutes.                                               *)

\* the schedule data span this many half days
MaxHalfDays == 7

DayLength == Hours(24)

\* datetime.date()
Date(t) == t \div DayLength

\* datetime.combine(day, datetime.min.time())
DayStart(day) == day * DayLength

\* datetime.combine(day, datetime.max.time()): the last instant of the day that the
\* clock can show, one unit of its resolution before the next day starts
DayEnd(day) == DayStart(day + 1) - 1

PdfInstants == { Hours(12 * k) : k \in 0..MaxHalfDays }

\* the segments of schedule_data['schedule']
PdfSegments ==
    { seg \in [ type : { "drive" }, start_time : PdfInstants, end_time : PdfInstants ] :
        seg.start_time < seg.end_time }

\* sorted(list(days_set))
RECURSIVE SortedDays(_)
SortedDays(days_set) ==
    IF days_set = {} THEN << >>
    ELSE LET first == CHOOSE d \in days_set : \A e \in days_set : d <= e
         IN << first >> \o SortedDays(days_set \ { first })

\* _get_days_covered: the dates of the start and of the end of each segment
DaysCovered(segments, today) ==
    IF segments = << >> THEN << today >>
    ELSE SortedDays({ Date(segments[k].start_time) : k \in 1..Len(segments) }
                      \cup { Date(segments[k].end_time) : k \in 1..Len(segments) })

\* the test of line 503
OverlapsDay(seg, day) == seg.start_time <= DayEnd(day) /\ seg.end_time >= DayStart(day)

\* the copy of lines 505-511, adjusted to the day's boundaries
ClippedToDay(seg, day) ==
    [ seg EXCEPT !.start_time = IF seg.start_time < DayStart(day) THEN DayStart(day) ELSE @,
                 !.end_time   = IF seg.end_time > DayEnd(day) THEN DayEnd(day) ELSE @ ]

\* _get_segments_for_day: the loop of lines 495-513
RECURSIVE SegmentsForDay(_, _)
SegmentsForDay(segments, day) ==
    IF segments = << >> THEN << >>
    ELSE ( IF OverlapsDay(Head(segments), day)
           THEN << ClippedToDay(Head(segments), day) >>
           ELSE << >> ) \o SegmentsForDay(Tail(segments), day)

PdfInit ==
    /\ \E segments \in SortedSegmentLists(PdfSegments, 0, MaxSegments) :
       \E today \in { Date(t) : t \in PdfInstants } :
          pdf = [ pc |-> "start", segments |-> segments, today |-> today,
                  days |-> << >>, k |-> 0, sheets |-> << >> ]
    /\ drawer = NoDrawer
    /\ other = NoOther
    /\ earlier = NoEarlier
    /\ request = NoRequest
    /\ response = NoResponse
    /\ trips = {}
    /\ self_current_cycle_used = 0
    /\ self_previous_drives = << >>
    /\ call = NoCall
    /\ ret = << >>
    /\ origin = ""
    /\ destination = ""
    /\ estimated_duration = 0
    /\ start_time = 0
    /\ current_cycle_used = 0
    /\ pc = "idle"
    /\ hos_data = NoHosData
    /\ schedule = << >>
    /\ current_time = 0
    /\ remaining_hours = 0
    /\ result = NoResult

PdfFrame == UNCHANGED << evalVars, synthVars, earlier, other, drawer, webVars >>

\* generate_pdf, lines 86-87: the days covered
GetDaysCovered ==
    /\ pdf.pc = "start"
    /\ pdf' = [ pdf EXCEPT !.days = DaysCovered(pdf.segments, pdf.today),
                           !.k = 1, !.pc = "sheets" ]
    /\ PdfFrame

\* _generate_single_day_log(day) for the next day: line 91, or the loop of 149-154
SingleDayLog ==
    /\ pdf.pc = "sheets"
    /\ pdf.k <= Len(pdf.days)
    /\ pdf' = [ pdf EXCEPT
                  !.sheets = Append(@, [ day |-> pdf.days[pdf.k],
                                         segments |-> SegmentsForDay(pdf.segments,
                                                                     pdf.days[pdf.k]) ]),
                  !.k = pdf.k + 1 ]
    /\ PdfFrame

\* the sheets are returned, combined: lines 91 and 156-163
ReturnPdf ==
    /\ pdf.pc = "sheets"
    /\ pdf.k > Len(pdf.days)
    /\ pdf' = [ pdf EXCEPT !.pc = "done" ]
    /\ PdfFrame

PdfNext == GetDaysCovered \/ SingleDayLog \/ ReturnPdf

PdfSpec == PdfInit /\ [][PdfNext]_vars

\* the days that a segment of the schedule overlaps
DaysOverlapped(segments) ==
    { day \in { Date(t) : t \in PdfInstants } :
        \E k \in 1..Len(segments) : OverlapsDay(segments[k], day) }

\* the sheets are those of the days of `days`, one each, in chronological order
OneSheetPerDay(sheets, days) ==
    /\ { sheets[k].day : k \in 1..Len(sheets) } = days
    /\ \A k \in 1..(Len(sheets) - 1) : sheets[k].day < sheets[k + 1].day

\* the segments of each sheet are the schedule's segments that overlap its day,
\* clipped to the day
SheetsAreClipped(sheets, segments) ==
    \A k \in 1..Len(sheets) :
        /\ sheets[k].segments = SegmentsForDay(segments, sheets[k].day)
        /\ \A j \in 1..Len(sheets[k].segments) :
              /\ sheets[k].segments[j].start_time >= DayStart(sheets[k].day)
              /\ sheets[k].segments[j].end_time <= DayEnd(sheets[k].day)
              /\ sheets[k].segments[j].start_time <= sheets[k].segments[j].end_time

\* C26: generate_pdf produces exactly one log sheet for every calendar day that a
\* schedule segment overlaps, in chronological order, and the segments of a day's
\* sheet are the schedule's segments clipped to that day.
C26_OneSheetPerDayOverlapped ==
    (pdf.pc = "done" /\ pdf.segments # << >>) =>
        /\ OneSheetPerDay(pdf.sheets, DaysOverlapped(pdf.segments))
        /\ SheetsAreClipped(pdf.sheets, pdf.segments)

\* C26 for schedules whose segments are shorter than a day, as the synthesizer's
\* are: the part of the claim the code keeps
C26_SegmentsShorterThanADay ==
    ( /\ pdf.pc = "done"
      /\ pdf.segments # << >>
      /\ \A k \in 1..Len(pdf.segments) :
            pdf.segments[k].end_time - pdf.segments[k].start_time < DayLength ) =>
        /\ OneSheetPerDay(pdf.sheets, DaysOverlapped(pdf.segments))
        /\ SheetsAreClipped(pdf.sheets, pdf.segments)

====
